---------------------------- MODULE Spec2Model ----------------------------
(***************************************************************************)
(* A model of GraphicalDisplayInterface/BackEnd/main2.py: the /prices,     *)
(* /stats and /compare handlers and the numerical helpers they call        *)
(* (getPrices, align_with_pandas, hit_rate_percentages, r2).               *)
(*                                                                         *)
(* Numbers.  A float is modelled by an exact rational <<n, d>> in lowest   *)
(* terms with d > 0; NaN (pandas' "missing") is <<0, 0>>.  An optional     *)
(* Python value is a sequence of length 0 (None) or 1.                     *)
(***************************************************************************)
EXTENDS Integers, Sequences, FiniteSets

VARIABLES pc, op, req, resp, err, fetches, transforms

vars == <<pc, op, req, resp, err, fetches, transforms>>

---------------------------------------------------------------------------
(* Exact arithmetic with a missing value.                                  *)

Abs(x) == IF x < 0 THEN -x ELSE x

RECURSIVE GCD(_, _)
GCD(a, b) == IF b = 0 THEN a ELSE GCD(b, a % b)

NaN == <<0, 0>>

IsNaN(x) == x[2] = 0

Rat(n, d) ==
    LET g == GCD(Abs(n), Abs(d))
        s == IF d < 0 THEN -1 ELSE 1
    IN  <<(s * n) \div g, (s * d) \div g>>

Num(n) == <<n, 1>>

RAdd(x, y) ==
    IF IsNaN(x) \/ IsNaN(y) THEN NaN
    ELSE Rat(x[1] * y[2] + y[1] * x[2], x[2] * y[2])

RSub(x, y) ==
    IF IsNaN(x) \/ IsNaN(y) THEN NaN
    ELSE Rat(x[1] * y[2] - y[1] * x[2], x[2] * y[2])

RMul(x, y) ==
    IF IsNaN(x) \/ IsNaN(y) THEN NaN
    ELSE Rat(x[1] * y[1], x[2] * y[2])

\* x / y; the only division by zero the handlers perform is 0.0 / 0, NaN.
RDiv(x, y) ==
    IF IsNaN(x) \/ IsNaN(y) \/ y[1] = 0 THEN NaN
    ELSE Rat(x[1] * y[2], x[2] * y[1])

RLess(x, y) == x[1] * y[2] < y[1] * x[2]

None == <<>>

Some(x) == <<x>>

Truthy(o) == o # None /\ o[1] # 0

\* Python's lst[k:], k may be negative or beyond the end.
\* The finite sequence f written out entry by entry, as a Python list is.
List(f) == f \o <<>>

SliceFrom(lst, k) ==
    LET n == Len(lst)
        start == IF k < 0 THEN (IF n + k < 0 THEN 0 ELSE n + k)
                 ELSE (IF k > n THEN n ELSE k)
    IN  List([i \in 1..(n - start) |-> lst[start + i]])

\* The number of the first i flags that hold, for every i.
Running(flags) ==
    List([i \in 1..Len(flags) |-> Cardinality({j \in 1..i : flags[j]})])

\* The entries of lst at the positions where keep holds, in order.
Filter(lst, keep) ==
    LET seen == Running(keep)
        n == IF Len(keep) = 0 THEN 0 ELSE seen[Len(keep)]
    IN  List([k \in 1..n |-> lst[CHOOSE i \in 1..Len(keep) : keep[i] /\ seen[i] = k]])

RECURSIVE SumSeq(_)
SumSeq(s) == IF s = <<>> THEN Num(0) ELSE RAdd(Head(s), SumSeq(Tail(s)))

SetToSortedSeq(S) ==
    LET RECURSIVE Build(_)
        Build(R) == IF R = {} THEN <<>>
                    ELSE LET m == CHOOSE x \in R : \A y \in R : x <= y
                         IN  <<m>> \o Build(R \ {m})
    IN  Build(S)

---------------------------------------------------------------------------
(* getPrices: the rows the SQL query returned, as the two parallel lists.  *)
(* A row is [t |-> minutes since the epoch, price |-> None or Some(n)]:    *)
(* the query keeps only instants with a zero seconds field, ordered by t.  *)

SecondsPerMinute == 60

to_unix_seconds(minute) == minute * SecondsPerMinute

\* lines 138-147: [[times], [prices]], or None when no row was returned.
getPrices(rows) ==
    IF Len(rows) = 0 THEN None
    ELSE Some(<<[i \in 1..Len(rows) |-> to_unix_seconds(rows[i].t)],
                [i \in 1..Len(rows) |-> rows[i].price]>>)

\* pd.to_numeric(errors="coerce").astype("float64") of one raw price.
to_numeric(raw) == IF raw = None THEN NaN ELSE Num(raw[1])

\* DataFrame.sort_values("t") on the two parallel columns: every row goes to
\* the place given by the number of rows that sort before it.
SortRows(s) ==
    LET place == List([i \in 1..Len(s) |->
                         1 + Cardinality({j \in 1..Len(s) :
                               s[j].t < s[i].t \/ (s[j].t = s[i].t /\ j < i)})])
    IN  List([k \in 1..Len(s) |-> s[CHOOSE i \in 1..Len(s) : place[i] = k]])

\* lines 233-236: the frame get_stats works on, columns t and p.
PriceFrame(ad) ==
    LET raw == SortRows([i \in 1..Len(ad[1]) |-> [t |-> ad[1][i], p |-> ad[2][i]]])
    IN  [t |-> [i \in 1..Len(raw) |-> raw[i].t],
         p |-> [i \in 1..Len(raw) |-> to_numeric(raw[i].p)]]

---------------------------------------------------------------------------
(* Windowed statistics.                                                    *)

\* Rolling(window, min_periods).mean(): pandas' sliding sum, which adds the
\* entering row and removes the row that left the window, skipping NaN.
RECURSIVE RollStep(_, _, _, _, _, _)
RollStep(p, w, minp, i, sum, nobs) ==
    IF i > Len(p) THEN <<>>
    ELSE LET addS == IF IsNaN(p[i]) THEN sum ELSE RAdd(sum, p[i])
             addN == IF IsNaN(p[i]) THEN nobs ELSE nobs + 1
             out  == i - w
             remS == IF out >= 1 /\ ~IsNaN(p[out]) THEN RSub(addS, p[out]) ELSE addS
             remN == IF out >= 1 /\ ~IsNaN(p[out]) THEN addN - 1 ELSE addN
             val  == IF remN >= minp /\ remN > 0 THEN RDiv(remS, Num(remN)) ELSE NaN
         IN  <<val>> \o RollStep(p, w, minp, i + 1, remS, remN)

SmaMinPeriods == 1

\* The rolling mean with min_periods left at its default, the window size.
RollingMeanFullWindow(p, w) == RollStep(p, w, w, 1, Num(0), 0)

RollingMean(p, w) == RollStep(p, w, SmaMinPeriods, 1, Num(0), 0)

\* lines 238-247: [times, rolling means].
SmaData(frame, w) ==
    LET rolling_list == RollingMean(frame.p, w)
        times_list == SliceFrom(frame.t, Len(frame.t) - Len(rolling_list))
    IN  <<times_list, rolling_list>>

---------------------------------------------------------------------------
(* Trend: numpy's Polynomial.fit(times, prices, deg) evaluated at times.   *)
(* The least-squares fitted values are the orthogonal projection of the    *)
(* prices on the span of the Vandermonde columns 1, u, ..., u^deg, u the   *)
(* times mapped affinely from [min, max] to [-1, 1]; lstsq returns the     *)
(* minimum-norm solution when there are fewer points than coefficients,    *)
(* with a RankWarning and no exception.                                    *)

RECURSIVE RPow(_, _)
RPow(x, k) == IF k = 0 THEN Num(1) ELSE RMul(x, RPow(x, k - 1))

Dot(a, b) == SumSeq([i \in 1..Len(a) |-> RMul(a[i], b[i])])

SeqMin(s) == CHOOSE x \in {s[i] : i \in 1..Len(s)} : \A j \in 1..Len(s) : x <= s[j]

SeqMax(s) == CHOOSE x \in {s[i] : i \in 1..Len(s)} : \A j \in 1..Len(s) : x >= s[j]

\* pu.getdomain and pu.mapdomain; a one-point domain [x, x] is widened to
\* [x - 1, x + 1].
MapDomain(times) ==
    LET lo0 == SeqMin(times)
        hi0 == SeqMax(times)
        lo  == IF lo0 = hi0 THEN lo0 - 1 ELSE lo0
        hi  == IF lo0 = hi0 THEN hi0 + 1 ELSE hi0
    IN  [i \in 1..Len(times) |-> Rat(2 * times[i] - lo - hi, hi - lo)]

\* v minus its projections on the vectors of basis (zero vectors skipped).
RECURSIVE Residual(_, _)
Residual(v, basis) ==
    IF basis = <<>> THEN v
    ELSE LET q  == Head(basis)
             qq == Dot(q, q)
             c  == IF qq[1] = 0 THEN Num(0) ELSE RDiv(Dot(v, q), qq)
         IN  Residual([i \in 1..Len(v) |-> RSub(v[i], RMul(c, q[i]))], Tail(basis))

\* An orthogonal basis of the span of the columns u^0 .. u^k.
RECURSIVE OrthoBasis(_, _)
OrthoBasis(u, k) ==
    IF k < 0 THEN <<>>
    ELSE LET prev == OrthoBasis(u, k - 1)
         IN  Append(prev, Residual([i \in 1..Len(u) |-> RPow(u[i], k)], prev))

\* The fitted values p(times); NaN everywhere when a price is NaN (every
\* coefficient of the solution is a combination of all the prices).
PolynomialFit(times, prices, deg) ==
    IF \E i \in 1..Len(prices) : IsNaN(prices[i])
    THEN [i \in 1..Len(prices) |-> NaN]
    ELSE LET basis == OrthoBasis(MapDomain(times), deg)
             rest  == Residual(prices, basis)
         IN  [i \in 1..Len(prices) |-> RSub(prices[i], rest[i])]

\* lines 250-259: [times, fitted values].
TrendData(frame, deg) == <<frame.t, PolynomialFit(frame.t, frame.p, deg)>>

---------------------------------------------------------------------------
(* MACD.  The exponential averages themselves are not represented: a       *)
(* derived column is modelled by the rows on which it is defined (not      *)
(* NaN), and an entry of an output list by the time of the row it was      *)
(* computed for.  Prices are positive, so value / price is defined         *)
(* exactly where value and price are.                                      *)

SamplesPerMinute == 60

signal_period == 9

\* Series.ewm(span, adjust=False, min_periods).mean(): defined from the row
\* at which min_periods non-NaN observations have been seen, and carried
\* forward over later NaN observations.
EwmDefined(flags, minp) ==
    LET seen == Running(flags)
    IN  List([i \in 1..Len(flags) |-> seen[i] >= minp])

BothDefined(a, b) == List([i \in 1..Len(a) |-> a[i] /\ b[i]])

\* lines 262-295: [[time, hist], [time, macd, signal]].
MacdData(frame, fast, slow) ==
    LET p_def      == List([i \in 1..Len(frame.p) |-> ~IsNaN(frame.p[i])])
        ema_fast   == EwmDefined(p_def, fast * SamplesPerMinute)
        ema_slow   == EwmDefined(p_def, slow * SamplesPerMinute)
        macd       == BothDefined(ema_fast, ema_slow)
        signal     == EwmDefined(macd, signal_period)
        histogram  == BothDefined(macd, signal)
        signal_pct == BothDefined(signal, p_def)
        macd_pct   == BothDefined(macd, p_def)
        hist_pct   == BothDefined(histogram, p_def)
        signal_list == Filter(frame.t, signal_pct)
        ls          == Len(signal_list)
        hist_all    == Filter(frame.t, hist_pct)
        hist_list   == SliceFrom(hist_all, Len(hist_all) - ls)
        macd_all    == Filter(frame.t, macd_pct)
        macd_list   == SliceFrom(macd_all, Len(signal_list) - ls)
        time_list   == SliceFrom(frame.t, Len(frame.t) - ls)
    IN  [macdHistData    |-> <<time_list, hist_list>>,
         macdSigMacdData |-> <<time_list, macd_list, signal_list>>]

---------------------------------------------------------------------------
(* Volatility and the summary: only whether the standard deviation is a    *)
(* number is represented (it needs two observations).                      *)

\* lines 299-302: log(p).diff(w).dropna().std(), annualised.
Volatility(frame, w) ==
    LET n == Len(frame.p)
        returns == {i \in 1..n : /\ i - w \in 1..n
                                 /\ ~IsNaN(frame.p[i])
                                 /\ ~IsNaN(frame.p[i - w])}
    IN  [finite |-> Cardinality(returns) >= 2]

RECURSIVE Least(_)
Least(s) ==
    IF Len(s) = 1 THEN s[1]
    ELSE LET m == Least(Tail(s)) IN IF RLess(m, s[1]) THEN m ELSE s[1]

RECURSIVE Greatest(_)
Greatest(s) ==
    IF Len(s) = 1 THEN s[1]
    ELSE LET m == Greatest(Tail(s)) IN IF RLess(s[1], m) THEN m ELSE s[1]

\* lines 308-313: mean, min, max and sample standard deviation, NaN skipped.
Summary(frame) ==
    LET present == Filter(frame.p, [i \in 1..Len(frame.p) |-> ~IsNaN(frame.p[i])])
        n == Len(present)
    IN  [mean  |-> IF n = 0 THEN NaN ELSE RDiv(SumSeq(present), Num(n)),
         min   |-> IF n = 0 THEN NaN ELSE Least(present),
         max   |-> IF n = 0 THEN NaN ELSE Greatest(present),
         stdex |-> [finite |-> n >= 2]]

---------------------------------------------------------------------------
(* POST /stats.  Each feature block either is skipped (its tag or its      *)
(* parameter is missing or falsy), runs and yields a value, or raises; the *)
(* blocks run in source order and the first exception ends the request.    *)

Skipped == [ran |-> FALSE, raised |-> FALSE, exc |-> "none", val |-> None]

Done(v) == [ran |-> TRUE, raised |-> FALSE, exc |-> "none", val |-> Some(v)]

Raised(e) == [ran |-> TRUE, raised |-> TRUE, exc |-> e, val |-> None]

\* line 238; Rolling rejects a negative window.
SmaBlock(r, frame) ==
    IF "sma" \in r.features /\ Truthy(r.sma_window)
    THEN IF r.sma_window[1] < 0 THEN Raised("ValueError")
         ELSE Done(SmaData(frame, r.sma_window[1]))
    ELSE Skipped

\* line 249; Polynomial.fit rejects a negative degree.
TrendBlock(r, frame) ==
    IF "trend" \in r.features /\ Truthy(r.trend_degree)
    THEN IF r.trend_degree[1] < 0 THEN Raised("ValueError")
         ELSE Done(TrendData(frame, r.trend_degree[1]))
    ELSE Skipped

\* line 261; ewm rejects a span below 1.
MacdBlock(r, frame) ==
    IF /\ "macd" \in r.features
       /\ Truthy(r.macd_fast)
       /\ Truthy(r.macd_slow)
       /\ r.macd_slow[1] > r.macd_fast[1]
    THEN IF r.macd_fast[1] * SamplesPerMinute < 1 THEN Raised("ValueError")
         ELSE Done(MacdData(frame, r.macd_fast[1], r.macd_slow[1]))
    ELSE Skipped

\* line 298.
VolatilityBlock(r, frame) ==
    IF "volatility" \in r.features /\ Truthy(r.vol_window)
    THEN Done(Volatility(frame, r.vol_window[1]))
    ELSE Skipped

\* lines 304-305 and fetch_market_volume: the remote service answers with a
\* volume, with no order book, or the transport fails (raise_for_status).
VolumeBlock(r) ==
    IF "volume" \in r.features
    THEN CASE r.volume_reply = "value"  -> Done([known |-> TRUE])
           [] r.volume_reply = "absent" -> [ran |-> TRUE, raised |-> FALSE,
                                            exc |-> "none", val |-> None]
           [] OTHER                     -> Raised("HTTPError")
    ELSE Skipped

\* line 307.
SummaryBlock(r, frame) ==
    IF "stats" \in r.features THEN Done(Summary(frame)) ELSE Skipped

BlockNames == <<"sma", "trend", "macd", "volatility", "volume", "stats">>

StatsBlocks(r, frame) ==
    <<SmaBlock(r, frame), TrendBlock(r, frame), MacdBlock(r, frame),
      VolatilityBlock(r, frame), VolumeBlock(r), SummaryBlock(r, frame)>>

\* The index of the first block that raises, 0 when none does.
FirstRaise(blocks) ==
    IF \E i \in 1..Len(blocks) : blocks[i].raised
    THEN CHOOSE i \in 1..Len(blocks) :
            blocks[i].raised /\ \A j \in 1..(i - 1) : ~blocks[j].raised
    ELSE 0

\* lines 315-318.
StatsResponse(b) ==
    [macdHistData    |-> IF b[3].val = None THEN None
                         ELSE Some(b[3].val[1].macdHistData),
     macdSigMacdData |-> IF b[3].val = None THEN None
                         ELSE Some(b[3].val[1].macdSigMacdData),
     smaData    |-> b[1].val,
     trendData  |-> b[2].val,
     volatility |-> b[4].val,
     volume     |-> b[5].val,
     stats      |-> b[6].val]

\* lines 217-318, for the request r; r.rows is what the price query returns.
get_stats(r) ==
    LET ad == getPrices(r.rows)
    IN  IF ad = None
        THEN [err |-> "TypeError", resp |-> None, fetches |-> 1, transforms |-> {}]
        ELSE LET blocks == StatsBlocks(r, PriceFrame(ad[1]))
                 k == FirstRaise(blocks)
                 last == IF k = 0 THEN Len(blocks) ELSE k
             IN  [err  |-> IF k = 0 THEN "none" ELSE blocks[k].exc,
                  resp |-> IF k = 0 THEN Some(StatsResponse(blocks)) ELSE None,
                  fetches |-> 1,
                  transforms |-> {BlockNames[i] : i \in {j \in 1..last : blocks[j].ran}}]

---------------------------------------------------------------------------
(* Alignment.  A series is <<times, prices>>, two lists of one length; a   *)
(* table is [index |-> row labels, cols |-> one list of cells per column]. *)

\* drop_duplicates with keep="first" in place of keep="last".
KeptPositionsFirst(times) ==
    {i \in 1..Len(times) : \A j \in 1..(i - 1) : times[j] # times[i]}

\* DataFrame.drop_duplicates("time", keep="last"): the positions kept.
KeptPositions(times) ==
    {i \in 1..Len(times) : \A j \in (i + 1)..Len(times) : times[j] # times[i]}

\* lines 364-368: the de-duplicated frame of one series, indexed by time.
DedupFrame(ser) ==
    LET keep == List([i \in 1..Len(ser[1]) |-> i \in KeptPositions(ser[1])])
    IN  [time |-> Filter(ser[1], keep), p |-> Filter(ser[2], keep)]

TimeSet(df) == {df.time[i] : i \in 1..Len(df.time)}

\* The row labels pd.concat(axis=1, join=how) gives the joined table.
JoinedIndex(dfs, how) ==
    IF how = "outer" THEN UNION {TimeSet(dfs[i]) : i \in 1..Len(dfs)}
    ELSE {t \in TimeSet(dfs[1]) : \A i \in 1..Len(dfs) : t \in TimeSet(dfs[i])}

\* The cell of column df at row label t.
CellAt(df, t) ==
    IF t \in TimeSet(df)
    THEN df.p[CHOOSE j \in 1..Len(df.time) : df.time[j] = t]
    ELSE NaN

\* lines 356-373.  pd.concat raises ValueError for an empty list and for a
\* join other than "inner" and "outer".
align_with_pandas(series, how) ==
    IF Len(series) = 0 \/ how \notin {"inner", "outer"}
    THEN None
    ELSE LET dfs   == List([i \in 1..Len(series) |-> DedupFrame(series[i])])
             index == SetToSortedSeq(JoinedIndex(dfs, how))
         IN  Some([index |-> index,
                   cols  |-> [i \in 1..Len(dfs) |->
                                [k \in 1..Len(index) |-> CellAt(dfs[i], index[k])]]])

\* DataFrame.dropna(): the rows with no missing cell.
dropna(table) ==
    LET keep == List([k \in 1..Len(table.index) |->
                         \A c \in 1..Len(table.cols) : ~IsNaN(table.cols[c][k])])
    IN  [index |-> Filter(table.index, keep),
         cols  |-> [c \in 1..Len(table.cols) |-> Filter(table.cols[c], keep)]]

\* DataFrame.diff(periods): cell minus the cell periods rows before.
diff(table, periods) ==
    [index |-> table.index,
     cols  |-> [c \in 1..Len(table.cols) |->
                  [k \in 1..Len(table.index) |->
                     IF k - periods \in 1..Len(table.index)
                     THEN RSub(table.cols[c][k], table.cols[c][k - periods])
                     ELSE NaN]]]

---------------------------------------------------------------------------
(* Leadership shares.                                                      *)

\* The wins without the division by the number of tied winners.
WinSharesUnsplit(chg) ==
    LET n == Len(chg.cols)
        rowmax(k) == Greatest([c \in 1..n |-> chg.cols[c][k]])
    IN  [c \in 1..n |->
           [k \in 1..Len(chg.index) |->
              IF chg.cols[c][k] = rowmax(k) THEN Num(1) ELSE Num(0)]]

\* lines 341-348: the wins of every column on every row of chg.
WinShares(chg) ==
    LET n == Len(chg.cols)
        rowmax(k) == Greatest([c \in 1..n |-> chg.cols[c][k]])
        is_top(c, k) == chg.cols[c][k] = rowmax(k) /\ ~IsNaN(chg.cols[c][k])
        tie_counts(k) == Cardinality({c \in 1..n : is_top(c, k)})
    IN  [c \in 1..n |->
           [k \in 1..Len(chg.index) |->
              IF is_top(c, k) /\ tie_counts(k) # 0
              THEN RDiv(Num(1), Num(tie_counts(k)))
              ELSE Num(0)]]

\* Series.sort_values(ascending=False).to_list(): the values alone, NaN last.
RECURSIVE InsertDesc(_, _)
InsertDesc(sorted, x) ==
    IF sorted = <<>> THEN <<x>>
    ELSE IF ~IsNaN(x) /\ (IsNaN(Head(sorted)) \/ RLess(Head(sorted), x))
         THEN <<x>> \o sorted
         ELSE <<Head(sorted)>> \o InsertDesc(Tail(sorted), x)

RECURSIVE SortDesc(_)
SortDesc(s) ==
    IF s = <<>> THEN <<>> ELSE InsertDesc(SortDesc(Tail(s)), Head(s))

\* lines 350-352 before the sort: each column's share, in column order.
ColumnShares(prices, period) ==
    LET shares == WinShares(dropna(diff(prices, period)))
        denom  == IF Len(shares) = 0 THEN 0 ELSE Len(shares[1])
    IN  [c \in 1..Len(shares) |-> RDiv(SumSeq(shares[c]), Num(denom))]

\* lines 335-354.
hit_rate_percentages(prices, period) == SortDesc(ColumnShares(prices, period))

\* lines 321-333: the flat N x N matrix; the correlations of the log
\* returns are not represented, only the length of the list.
r2(table, r2_window) == [len |-> Len(table.cols) * Len(table.cols)]

---------------------------------------------------------------------------
(* POST /compare.  A source is [name |-> market name, rows |-> what the    *)
(* price query returns for it]; r.aware tells whether the start and end    *)
(* instants of the sources carry a time zone (to_unix_seconds raises       *)
(* ValueError otherwise).                                                  *)

\* lines 411-417: the sources fetched in order until one has no rows, which
\* makes ad[0] raise TypeError.
FirstEmpty(sources) ==
    IF \E i \in 1..Len(sources) : getPrices(sources[i].rows) = None
    THEN CHOOSE i \in 1..Len(sources) :
            /\ getPrices(sources[i].rows) = None
            /\ \A j \in 1..(i - 1) : getPrices(sources[j].rows) # None
    ELSE 0

\* np.array of the two fetched lists.
SourceSeries(src) ==
    LET ad == getPrices(src.rows)[1]
    IN  <<ad[1], [i \in 1..Len(ad[2]) |-> to_numeric(ad[2][i])]>>

\* lines 419-420: the table every compare feature is computed from.
CompareTable(sources) ==
    dropna(align_with_pandas([i \in 1..Len(sources) |-> SourceSeries(sources[i])],
                             "outer")[1])

\* lines 387-439.
post_compare(r) ==
    LET market_name_list == [i \in 1..Len(r.sources) |-> r.sources[i].name]
        empty == FirstEmpty(r.sources)
    IN  IF Len(r.sources) > 0 /\ ~r.aware
        THEN [err |-> "ValueError", resp |-> None, fetches |-> 0, transforms |-> {}]
        ELSE IF Len(r.sources) = 0
        THEN [err |-> "ValueError", resp |-> None, fetches |-> 0, transforms |-> {}]
        ELSE IF empty # 0
        THEN [err |-> "TypeError", resp |-> None, fetches |-> empty, transforms |-> {}]
        ELSE LET aligned == CompareTable(r.sources)
                 do_r2   == "r2" \in r.features /\ Truthy(r.r2_window)
                 do_line == "lines" \in r.features
                 do_hit  == "hit_rate" \in r.features /\ Truthy(r.hit_rate_window)
             IN  [err  |-> "none",
                  resp |-> Some(
                     [rsquared |-> IF do_r2 THEN Some(r2(aligned, r.r2_window[1]))
                                   ELSE None,
                      lines    |-> IF do_line THEN Some(<<aligned.index>> \o aligned.cols)
                                   ELSE None,
                      hitr     |-> IF do_hit
                                   THEN Some(<<market_name_list,
                                               hit_rate_percentages(aligned,
                                                   r.hit_rate_window[1])>>)
                                   ELSE None,
                      marketNames |-> market_name_list]),
                  fetches |-> Len(r.sources),
                  transforms |-> {"align"} \cup (IF do_r2 THEN {"r2"} ELSE {})
                                           \cup (IF do_hit THEN {"hit_rate"} ELSE {})]

\* lines 150-153.
prices(rows) == [alignedData |-> getPrices(rows)]

---------------------------------------------------------------------------
(* The inputs the handlers are driven with.                                *)

MaxMinute == 2

MaxWindow == 3

MaxDegree == 2

MaxFeatures == 2

MaxRows == 130

MaxSeriesLen == 2

MaxCells == 6

PriceValues == {10, 20, 30}

RowsOf(T, f) ==
    LET ts == SetToSortedSeq(T)
    IN  [i \in 1..Len(ts) |-> [t |-> ts[i], price |-> f[ts[i]]]]

\* Every result set of the price query over the minutes 0..MaxMinute: one
\* row per minute at most, ascending.
RowsOver(lastMinute, rawPrices) ==
    UNION {{RowsOf(T, f) : f \in [T -> rawPrices]} : T \in SUBSET (0..lastMinute)}

StatsRows(lastMinute) == RowsOver(lastMinute, {None} \cup {Some(v) : v \in PriceValues})

CompareRows(lastMinute) == RowsOver(lastMinute, {Some(10), Some(20)})

\* Minute-by-minute result sets long enough for the MACD warm-up, at a
\* constant price, with at most one NULL price (gap = 0: none).
LongRows(most) ==
    {[i \in 1..n |-> [t |-> i - 1, price |-> IF i = gap THEN None ELSE Some(10)]] :
        n \in (most - 12)..most, gap \in {0, 1, 60, 125}}

Opt(S) == {None} \cup {Some(x) : x \in S}

StatsTags == {"sma", "trend", "macd", "volatility", "volume", "stats"}

\* The requests with the feature set F over the result sets Rows; the
\* parameter of a feature that is not requested is left out (None).
StatsRequestsOver(F, Rows) ==
    [features     : {F},
     rows         : Rows,
     sma_window   : IF "sma" \in F THEN Opt(-1..MaxWindow) ELSE {None},
     trend_degree : IF "trend" \in F THEN Opt(-1..MaxDegree) ELSE {None},
     macd_fast    : IF "macd" \in F THEN Opt(-1..1) ELSE {None},
     macd_slow    : IF "macd" \in F THEN Opt(0..2) ELSE {None},
     vol_window   : IF "volatility" \in F THEN Opt(-1..MaxWindow) ELSE {None},
     volume_reply : IF "volume" \in F THEN {"value", "absent", "error"}
                    ELSE {"absent"}]

FeatureSets(tags, most) == {F \in SUBSET tags : Cardinality(F) <= most}

CompareTags == {"r2", "lines", "hit_rate"}

SourceLists(Rows) ==
    {<<>>}
    \cup {<<[name |-> "A", rows |-> a]>> : a \in Rows}
    \cup {<<[name |-> "A", rows |-> a], [name |-> "B", rows |-> b]>> :
            a \in Rows, b \in Rows}

CompareRequestsOver(F, Rows) ==
    [sources         : SourceLists(Rows),
     aware           : BOOLEAN,
     features        : {F},
     r2_window       : IF "r2" \in F THEN Opt(-1..1) ELSE {None},
     hit_rate_window : IF "hit_rate" \in F THEN Opt(-1..2) ELSE {None}]


\* The arguments of align_with_pandas: up to two series of up to
\* MaxSeriesLen samples, in any order and with repeated times.
SamplePoints == {0, 60, 120} \X {Num(10), Num(20)}

SeriesOf(pts) == <<[i \in 1..Len(pts) |-> pts[i][1]], [i \in 1..Len(pts) |-> pts[i][2]]>>

AlignSeries(most) ==
    {SeriesOf(pts) : pts \in UNION {[1..n -> SamplePoints] : n \in 0..most}}

AlignInputs(count, most) == [1..count -> AlignSeries(most)]

JoinPolicies == {"outer", "inner", "left"}

\* The arguments of hit_rate_percentages: tables of 1 to 3 columns with at
\* most MaxCells cells, a cell a price or missing.
CellValues == {NaN} \cup {Num(v) : v \in PriceValues}

TableShapes(most) == {s \in (1..3) \X (1..most) : s[1] * s[2] <= most}

TableIndex(rows) == [k \in 1..rows |-> (k - 1) * SecondsPerMinute]

TableColumns(s) == [1..s[1] -> [1..s[2] -> CellValues]]

Periods == {1, 2}

---------------------------------------------------------------------------
(* The service: it takes one request at a time (pc = "idle"), runs the     *)
(* handler to its end and hands the outcome back (pc = "done").            *)

Init ==
    /\ pc = "idle"
    /\ op = "none"
    /\ req = None
    /\ resp = None
    /\ err = "none"
    /\ fetches = 0
    /\ transforms = {}

Finish(name, r, out) ==
    /\ pc' = "done"
    /\ op' = name
    /\ req' = r
    /\ resp' = out.resp
    /\ err' = out.err
    /\ fetches' = out.fetches
    /\ transforms' = out.transforms

GetStatsOn(FSets, Rows) ==
    /\ pc = "idle"
    /\ \E F \in FSets :
          \E r \in StatsRequestsOver(F, Rows) : Finish("stats", r, get_stats(r))

GetStats == GetStatsOn(FeatureSets(StatsTags, MaxFeatures), StatsRows(MaxMinute))

GetStatsSma == GetStatsOn({{"sma"}}, StatsRows(MaxMinute))

GetStatsMacd == GetStatsOn({{"macd"}}, LongRows(MaxRows))

PostCompare ==
    /\ pc = "idle"
    /\ \E F \in FeatureSets(CompareTags, MaxFeatures) :
          \E r \in CompareRequestsOver(F, CompareRows(MaxMinute)) :
             Finish("compare", r, post_compare(r))

PostPrices ==
    /\ pc = "idle"
    /\ \E rows \in StatsRows(MaxMinute) :
          Finish("prices", [rows |-> rows],
                 [err |-> "none", resp |-> Some(prices(rows)),
                  fetches |-> 1, transforms |-> {}])

\* A direct call of align_with_pandas.
Align ==
    /\ pc = "idle"
    /\ \E count \in 0..2 :
       \E series \in AlignInputs(count, MaxSeriesLen), how \in JoinPolicies :
          LET out == align_with_pandas(series, how)
          IN  Finish("align", [series |-> series, how |-> how],
                     [err |-> IF out = None THEN "ValueError" ELSE "none",
                      resp |-> out, fetches |-> 0, transforms |-> {"align"}])

\* A direct call of hit_rate_percentages.
HitRate ==
    /\ pc = "idle"
    /\ \E s \in TableShapes(MaxCells), period \in Periods :
       \E cs \in TableColumns(s) :
          LET table == [index |-> TableIndex(s[2]), cols |-> cs]
          IN
          Finish("hit_rate", [prices |-> table, period |-> period],
                 [err |-> "none",
                  resp |-> Some([chg    |-> dropna(diff(table, period)),
                                 shares |-> WinShares(dropna(diff(table, period))),
                                 out    |-> hit_rate_percentages(table, period)]),
                  fetches |-> 0, transforms |-> {"hit_rate"}])

Respond ==
    /\ pc = "done"
    /\ pc' = "idle"
    /\ op' = "none"
    /\ req' = None
    /\ resp' = None
    /\ err' = "none"
    /\ fetches' = 0
    /\ transforms' = {}

Next == GetStats \/ PostCompare \/ PostPrices \/ Respond

Spec == Init /\ [][Next]_vars

NextSma == GetStatsSma \/ Respond

SpecSma == Init /\ [][NextSma]_vars

NextMacd == GetStatsMacd \/ Respond

SpecMacd == Init /\ [][NextMacd]_vars

NextAlign == Align \/ Respond

SpecAlign == Init /\ [][NextAlign]_vars

NextHitRate == HitRate \/ Respond

SpecHitRate == Init /\ [][NextHitRate]_vars

---------------------------------------------------------------------------
(* Properties of align_with_pandas.                                        *)

SeriesTimes(ser) == {ser[1][j] : j \in 1..Len(ser[1])}

\* The price the series gives for time t at its last sample with that time.
LastValueAt(ser, t) ==
    ser[2][CHOOSE j \in 1..Len(ser[1]) :
              ser[1][j] = t /\ \A k \in (j + 1)..Len(ser[1]) : ser[1][k] # t]

ExpectedIndex(series, how) ==
    IF how = "outer" THEN UNION {SeriesTimes(series[i]) : i \in 1..Len(series)}
    ELSE {t \in SeriesTimes(series[1]) : \A i \in 1..Len(series) : t \in SeriesTimes(series[i])}

\* Two series of two distinct times each that share exactly one time.
OneCommonPoint(series) ==
    /\ Len(series) = 2
    /\ Cardinality(SeriesTimes(series[1])) = 2
    /\ Cardinality(SeriesTimes(series[2])) = 2
    /\ Cardinality(SeriesTimes(series[1]) \cap SeriesTimes(series[2])) = 1

\* C1: for one or more series and how in {"outer", "inner"},
\* align_with_pandas returns a table whose row labels are exactly the union
\* (outer) or the intersection (inner) of the series' time sets, strictly
\* ascending, with one column per series in input order; the cell of
\* column i at a row is series i's last price for that time, and missing
\* when series i has no sample at it.  Two series with one common time and
\* one other time each give 3 rows under outer and 1 under inner.
AlignedTableIsExactJoin ==
    (op = "align" /\ Len(req.series) >= 1 /\ req.how \in {"outer", "inner"}) =>
        /\ err = "none"
        /\ resp # None
        /\ LET table == resp[1]
               index == table.index
               want  == ExpectedIndex(req.series, req.how)
           IN  /\ {index[k] : k \in 1..Len(index)} = want
               /\ Len(index) = Cardinality(want)
               /\ \A k \in 1..(Len(index) - 1) : index[k] < index[k + 1]
               /\ Len(table.cols) = Len(req.series)
               /\ \A i \in 1..Len(req.series) :
                     /\ Len(table.cols[i]) = Len(index)
                     /\ \A k \in 1..Len(index) :
                           table.cols[i][k] =
                              IF index[k] \in SeriesTimes(req.series[i])
                              THEN LastValueAt(req.series[i], index[k])
                              ELSE NaN
               /\ OneCommonPoint(req.series) =>
                     Len(index) = IF req.how = "outer" THEN 3 ELSE 1

\* C1 witness: the outer join of two series with one common time has been
\* computed: three rows, each series missing on one of them.
AlignOneCommonPointReached ==
    /\ op = "align"
    /\ req.how = "outer"
    /\ OneCommonPoint(req.series)
    /\ resp # None
    /\ Len(resp[1].index) = 3
    /\ \E k \in 1..3 : IsNaN(resp[1].cols[1][k])
    /\ \E k \in 1..3 : IsNaN(resp[1].cols[2][k])

---------------------------------------------------------------------------
(* Properties of hit_rate_percentages.                                     *)

\* The rows whose change over period rows is defined in every column.
EligibleRows(table, period) ==
    {k \in 1..Len(table.index) :
        /\ k - period \in 1..Len(table.index)
        /\ \A c \in 1..Len(table.cols) :
              ~IsNaN(table.cols[c][k]) /\ ~IsNaN(table.cols[c][k - period])}

Change(table, period, c, k) == RSub(table.cols[c][k], table.cols[c][k - period])

Winners(table, period, k) ==
    {c \in 1..Len(table.cols) :
        \A d \in 1..Len(table.cols) :
           ~RLess(Change(table, period, c, k), Change(table, period, d, k))}

\* The win of column c on the eligible row k: an even split of 1.
WinOf(table, period, c, k) ==
    IF c \in Winners(table, period, k)
    THEN Rat(1, Cardinality(Winners(table, period, k)))
    ELSE Num(0)

\* The sum of column c's wins over the number of eligible rows.
ExpectedShare(table, period, c) ==
    LET rows == SetToSortedSeq(EligibleRows(table, period))
    IN  RDiv(SumSeq([e \in 1..Len(rows) |-> WinOf(table, period, c, rows[e])]),
             Num(Len(rows)))

InUnitInterval(x) == ~IsNaN(x) /\ ~RLess(x, Num(0)) /\ ~RLess(Num(1), x)

\* C3: for a period >= 1 that leaves an eligible row, the rows scored are
\* the eligible rows; on each the columns at the row maximum share a win of
\* 1 evenly, the others get 0 and the wins of the row sum to 1; every
\* returned share is in [0, 1] and the returned shares sum to 1.
HitRateSplitsOneWinPerRow ==
    (op = "hit_rate" /\ req.period >= 1
        /\ EligibleRows(req.prices, req.period) # {}) =>
        LET rows   == SetToSortedSeq(EligibleRows(req.prices, req.period))
            shares == resp[1].shares
            out    == resp[1].out
            n      == Len(req.prices.cols)
        IN  /\ resp[1].chg.index = [e \in 1..Len(rows) |-> req.prices.index[rows[e]]]
            /\ Len(shares) = n
            /\ \A e \in 1..Len(rows) :
                  /\ \A c \in 1..n :
                        shares[c][e] = WinOf(req.prices, req.period, c, rows[e])
                  /\ SumSeq([c \in 1..n |-> shares[c][e]]) = Num(1)
            /\ Len(out) = n
            /\ \A i \in 1..n : InUnitInterval(out[i])
            /\ SumSeq(out) = Num(1)

\* C3 witness: a table of two series with a single eligible row on which the
\* two changes tie has been scored: each gets 0.5.
HitRateTwoWayTieReached ==
    /\ op = "hit_rate"
    /\ req.period = 1
    /\ Len(req.prices.cols) = 2
    /\ Cardinality(EligibleRows(req.prices, req.period)) = 1
    /\ resp[1].out = <<Rat(1, 2), Rat(1, 2)>>

---------------------------------------------------------------------------
(* Properties of POST /stats.                                              *)

\* The price column of the request's rows, NULL as NaN.
InputPrices(r) == [i \in 1..Len(r.rows) |-> to_numeric(r.rows[i].price)]

InputTimes(r) == [i \in 1..Len(r.rows) |-> r.rows[i].t * SecondsPerMinute]

\* The mean of the prices present among rows lo..hi, missing when none is.
RECURSIVE SumPresent(_, _, _)
SumPresent(p, lo, hi) ==
    IF lo > hi THEN 0
    ELSE (IF IsNaN(p[hi]) THEN 0 ELSE p[hi][1]) + SumPresent(p, lo, hi - 1)

WindowMean(p, lo, hi) ==
    LET present == {j \in lo..hi : ~IsNaN(p[j])}
    IN  IF present = {} THEN NaN ELSE Rat(SumPresent(p, lo, hi), Cardinality(present))

Max2(a, b) == IF a > b THEN a ELSE b

SmaRequested(w) ==
    /\ op = "stats"
    /\ req.features = {"sma"}
    /\ req.sma_window = Some(w)
    /\ Len(req.rows) > 0

ScenarioRows ==
    <<[t |-> 0, price |-> Some(10)], [t |-> 1, price |-> Some(20)],
      [t |-> 2, price |-> Some(30)]>>

\* C6: for a non-empty series and a window w >= 1 the SMA output has one
\* row per input row, at the input times, and row i holds the mean of the
\* prices of the rows max(1, i - w + 1)..i (of those present, when a price
\* is missing); with w = 1 it equals the input, and [(0,10),(60,20),
\* (120,30)] with w = 2 gives [(0,10),(60,15),(120,25)].
SmaIsTrailingMean ==
    \A w \in 1..(MaxWindow + 1) :
       SmaRequested(w) =>
          /\ err = "none"
          /\ resp[1].smaData # None
          /\ LET sma == resp[1].smaData[1]
                 p   == InputPrices(req)
             IN  /\ sma[1] = InputTimes(req)
                 /\ Len(sma[2]) = Len(req.rows)
                 /\ \A i \in 1..Len(req.rows) :
                       sma[2][i] = WindowMean(p, Max2(1, i - w + 1), i)
                 /\ (w = 1) => sma[2] = p
                 /\ (w = 2 /\ req.rows = ScenarioRows) =>
                       sma = <<<<0, 60, 120>>, <<Num(10), Num(15), Num(25)>>>>

\* C6 witness: the SMA of [(0,10),(60,20),(120,30)] with window 2 has been
\* returned, its first row a partial window.
SmaScenarioReached ==
    /\ SmaRequested(2)
    /\ req.rows = ScenarioRows
    /\ err = "none"
    /\ resp[1].smaData = Some(<<<<0, 60, 120>>, <<Num(10), Num(15), Num(25)>>>>)

\* The number of rows with a price.
Usable(r) == Cardinality({i \in 1..Len(r.rows) : r.rows[i].price # None})

\* C7 (the claim as stated; the handler violates it): a trend request of
\* degree d over a series with at most d usable points ends in an error
\* and never in a response that carries a fitted trend series.  Stated for
\* the series of two or more rows, all priced, and d >= 1: the inputs on
\* which the handler reaches Polynomial.fit with more than one point.
UnderdeterminedTrendIsAnError ==
    (/\ op = "stats"
     /\ "trend" \in req.features
     /\ req.trend_degree # None
     /\ req.trend_degree[1] >= 1
     /\ Len(req.rows) >= 2
     /\ Usable(req) = Len(req.rows)
     /\ Usable(req) <= req.trend_degree[1]) =>
        /\ err # "none"
        /\ resp = None

\* C10 (the claim as stated; the handler violates it): a trend request of
\* degree 0 over a non-empty series returns one fitted value per input
\* time, each the arithmetic mean of the prices.
DegreeZeroTrendIsTheMean ==
    (/\ op = "stats"
     /\ req.features = {"trend"}
     /\ req.trend_degree = Some(0)
     /\ Len(req.rows) > 0
     /\ Usable(req) = Len(req.rows)) =>
        /\ err = "none"
        /\ resp[1].trendData # None
        /\ resp[1].trendData[1][1] = InputTimes(req)
        /\ resp[1].trendData[1][2] =
              [i \in 1..Len(req.rows) |-> WindowMean(InputPrices(req), 1, Len(req.rows))]

\* C5 (the claim as stated; the handler violates it): when the MACD block
\* runs, the time axis and the percent MACD, signal and histogram lists
\* have one length, the number of rows on which the signal line is defined,
\* and entry k of each belongs to the same row, the rows being the last
\* rows of the input.
MacdListsAreAligned ==
    (/\ op = "stats"
     /\ "macd" \in req.features
     /\ Truthy(req.macd_fast) /\ Truthy(req.macd_slow)
     /\ req.macd_slow[1] > req.macd_fast[1]
     /\ err = "none") =>
        LET hist == resp[1].macdHistData[1]
            sig  == resp[1].macdSigMacdData[1]
            n    == Len(req.rows)
            ls   == Cardinality({i \in 1..n :
                        \* the signal needs signal_period rows of MACD, which
                        \* needs macd_slow * SamplesPerMinute prices
                        /\ req.rows[i].price # None
                        /\ Cardinality({j \in 1..i :
                              Cardinality({k \in 1..j : req.rows[k].price # None})
                                 >= req.macd_slow[1] * SamplesPerMinute})
                              >= signal_period})
            tail == [k \in 1..ls |-> InputTimes(req)[n - ls + k]]
        IN  /\ hist[1] = tail /\ hist[2] = tail
            /\ sig[1] = tail /\ sig[2] = tail /\ sig[3] = tail

---------------------------------------------------------------------------
(* Properties of POST /compare and of the requests as a whole.             *)

\* The times at which source i of the request has a row.
SourceTimes(r, i) == {r.sources[i].rows[j].t * SecondsPerMinute : j \in 1..Len(r.sources[i].rows)}

CompareAnswered ==
    /\ op = "compare"
    /\ err = "none"
    /\ resp # None

\* C2 (the claim as stated; the handler violates it): the table behind the
\* line output of a compare has one row for every time present in any of
\* the fetched series; a row on which a series has no sample is kept, that
\* series' cell missing.
CompareKeepsEveryTimestamp ==
    (CompareAnswered /\ resp[1].lines # None) =>
        LET lines == resp[1].lines[1]
            times == lines[1]
            n     == Len(req.sources)
        IN  /\ {times[k] : k \in 1..Len(times)} = UNION {SourceTimes(req, i) : i \in 1..n}
            /\ Len(lines) = n + 1
            /\ \A i \in 1..n : \A k \in 1..Len(times) :
                  IsNaN(lines[i + 1][k]) <=> times[k] \notin SourceTimes(req, i)

\* C4 (the claim as stated; the handler violates it): the leadership result
\* of a compare is sorted descending by share and the share listed with
\* series i's market name is the sum of column i's wins over the number of
\* eligible rows.
HitRatePairsNameWithItsShare ==
    (/\ CompareAnswered
     /\ resp[1].hitr # None
     /\ req.hit_rate_window[1] >= 1
     /\ EligibleRows(CompareTable(req.sources), req.hit_rate_window[1]) # {}) =>
        LET names  == resp[1].hitr[1][1]
            shares == resp[1].hitr[1][2]
        IN  /\ Len(names) = Len(req.sources) /\ Len(shares) = Len(req.sources)
            /\ \A i \in 1..(Len(shares) - 1) : ~RLess(shares[i], shares[i + 1])
            /\ \A i \in 1..Len(req.sources) : \A k \in 1..Len(names) :
                  names[k] = req.sources[i].name =>
                     shares[k] = ExpectedShare(CompareTable(req.sources),
                                               req.hit_rate_window[1], i)

\* A request served by a price query that returned no row.
EmptyFetch ==
    \/ op = "stats" /\ Len(req.rows) = 0
    \/ /\ op = "compare" /\ req.aware /\ Len(req.sources) > 0
       /\ \E i \in 1..Len(req.sources) : Len(req.sources[i].rows) = 0

\* C8 (the claim as stated; the handler violates it): a stats or compare
\* request whose price fetch returns no sample completes without an
\* exception and every derived output is absent or empty.
EmptyFetchIsNotAnError ==
    EmptyFetch => (err = "none" /\ resp # None)

NonPositive(o) == o # None /\ o[1] <= 0

\* A request with a non-positive window, or a compare of no source.
SchemaInvalid ==
    \/ /\ op = "stats"
       /\ \/ NonPositive(req.sma_window) \/ NonPositive(req.vol_window)
          \/ NonPositive(req.macd_fast) \/ NonPositive(req.macd_slow)
    \/ /\ op = "compare"
       /\ \/ NonPositive(req.r2_window) \/ NonPositive(req.hit_rate_window)
          \/ Len(req.sources) = 0

\* C9 (the claim as stated; the handler violates it): a structurally
\* invalid request is turned down before any computation: it ends in an
\* error, with no price fetch made and no transform run.
InvalidRequestIsRejectedFirst ==
    SchemaInvalid => (err # "none" /\ resp = None /\ fetches = 0 /\ transforms = {})

============================================================================
